---- MODULE Spec2Model ----
(***************************************************************************)
(* Streaming chat-turn pipeline of ai_rpg: credit ledger, conversation     *)
(* store and the two chat_message_stream endpoints (routers/ai.py, with    *)
(* its copy in main.py, and routers/conversations.py), the payment webhook *)
(* and the conversation management endpoints.                              *)
(*                                                                         *)
(* Text is modelled as a sequence of tokens: "Error:" stands for the six   *)
(* characters the endpoints test with startswith, " " for whitespace.      *)
(* The database is one shared store; every commit is one atomic step and   *)
(* every read that the code performs in a separate statement before a      *)
(* later commit (the finalize re-read, the webhook read) is its own step.  *)
(***************************************************************************)
EXTENDS Integers, Sequences, FiniteSets, TLC

\* ---------------------------------------------------------------- bounds
MaxTurns == 2
MaxOpsTurns == 1
MaxOps == 2
MaxSetups == 1
MaxTopups == 1
MaxDeliveries == 2
MaxEvents == 2
MaxInitCredits == 1
MaxStored == 21
MaxCalls == 2
MaxForwarded == 1

\* ------------------------------------------------------ program constants
CREDITS_PER_PURCHASE == 100

HISTORY_LIMIT == 20

BASE_SYSTEM_PROMPT == <<"base">>

START_MESSAGE == <<"welcome">>

Users == {"A", "B"}
Turns == 1..MaxTurns
OpsTurns == 1..MaxOpsTurns
Routers == {"ai", "conv"}
PROMPT == <<"q">>
Calls == 1..MaxCalls

VARIABLES users, credits, conversations, messages, now, turn, hook, resp, nops, nsetup,
          calls

vars == <<users, credits, conversations, messages, now, turn, hook, resp, nops, nsetup, calls>>

\* ------------------------------------------------------------ text helpers
StartsWith(chunk, tok) == Len(chunk) > 0 /\ chunk[1] = tok

RECURSIVE LStrip(_)
LStrip(s) == IF Len(s) > 0 /\ s[1] = " " THEN LStrip(Tail(s)) ELSE s

RECURSIVE RStrip(_)
RStrip(s) == IF Len(s) > 0 /\ s[Len(s)] = " " THEN RStrip(SubSeq(s, 1, Len(s) - 1)) ELSE s

Strip(s) == RStrip(LStrip(s))

\* ------------------------------------------------------ generation client
\* What the external provider does on one call: whether the client is
\* configured, the text of each chunk it sends, and whether the connection
\* fails after the last chunk.
BasicProviders ==
  { [configured |-> TRUE,  chunks |-> << <<"a">>, <<"b">> >>, fails |-> FALSE],
    [configured |-> TRUE,  chunks |-> << <<>> >>,             fails |-> FALSE],
    [configured |-> TRUE,  chunks |-> << <<"a">> >>,          fails |-> TRUE],
    [configured |-> FALSE, chunks |-> << >>,                  fails |-> FALSE] }

\* Also: generated text that is only whitespace, and generated text that
\* itself begins with the characters "Error:".
Providers ==
  BasicProviders \cup
  { [configured |-> TRUE,  chunks |-> << <<" ">> >>,           fails |-> FALSE],
    [configured |-> TRUE,  chunks |-> << <<"Error:", "x">> >>, fails |-> FALSE] }

NoProvider == [configured |-> FALSE, chunks |-> << >>, fails |-> TRUE]

NonEmptyChunk(c) == Len(c) > 0

call_google_ai_stream(p) ==
  IF ~p.configured THEN << <<"Error:", "not configured">> >>
  ELSE SelectSeq(p.chunks, NonEmptyChunk)
         \o (IF p.fails THEN << <<"Error:", "connect">> >> ELSE << >>)

\* The instructions the provider call runs under: ai_model is built once
\* with system_instruction=BASE_SYSTEM_PROMPT and call_google_ai_stream never
\* reads its session_system_prompt parameter.
applied_system_instruction(session_system_prompt) == BASE_SYSTEM_PROMPT

\* What save_setup_context computes as effective_system_prompt: the base
\* alone, or the base followed by the generated session focus.
SystemPrompts == {BASE_SYSTEM_PROMPT, BASE_SYSTEM_PROMPT \o <<"focus">>}

ProviderHealthy(p) ==
  /\ p.configured
  /\ ~p.fails
  /\ \E i \in 1..Len(p.chunks) : Len(p.chunks[i]) > 0
  /\ \A i \in 1..Len(p.chunks) : ~StartsWith(p.chunks[i], "Error:")

\* ------------------------------------------------------------- the store
DB == [users |-> users, credits |-> credits, conversations |-> conversations,
       messages |-> messages, now |-> now]

Store(d) ==
  /\ users' = d.users
  /\ credits' = d.credits
  /\ conversations' = d.conversations
  /\ messages' = d.messages
  /\ now' = d.now

NewConversation(u, title, ts) ==
  [user_id |-> u, title |-> title, updated_at |-> ts, is_active |-> TRUE]

\* models.ChatMessage: unlike Conversation it declares no is_active column.
NewMessage(cid, role, content, ts) ==
  [conversation_id |-> cid, role |-> role, content |-> content,
   timestamp |-> ts]

\* _create_playground_conversation_internal: two commits, the conversation
\* and then its welcome message.
create_playground_conversation(d, u) ==
  LET cid == Len(d.conversations) + 1 IN
  [d EXCEPT !.conversations = Append(@, NewConversation(u, <<"New Adventure">>, d.now)),
            !.messages = Append(@, NewMessage(cid, "assistant", START_MESSAGE, d.now + 1)),
            !.now = @ + 2]

get_or_create_db_user(d, u) ==
  IF u \in d.users THEN d
  ELSE create_playground_conversation(
         [d EXCEPT !.users = @ \cup {u}, !.credits[u] = 0], u)

check_credit_status_lt(d, u) == ~(d.credits[u] < 0)

check_credit_status(d, u) == ~(d.credits[u] <= 0)

\* The finalize-time test of the re-read row: current_db_user.credits <= 0.
NoCreditLeft_lt(c) == c < 0

NoCreditLeft(c) == c <= 0

ActiveOwned(d, u, cid) ==
  /\ cid \in 1..Len(d.conversations)
  /\ d.conversations[cid].user_id = u
  /\ d.conversations[cid].is_active

ActiveConversationsOf(d, u) == {c \in 1..Len(d.conversations) : ActiveOwned(d, u, c)}

MostRecentActive(d, u) ==
  CHOOSE c \in ActiveConversationsOf(d, u) :
    \A c2 \in ActiveConversationsOf(d, u) :
      d.conversations[c2].updated_at <= d.conversations[c].updated_at

SaveUserMessage_lost(d, cid, content) ==
  [d EXCEPT !.conversations[cid].updated_at = d.now,
            !.now = @ + 1]

\* The user-message unit of work: insert the message, bump updated_at, commit.
SaveUserMessage(d, cid, content) ==
  [d EXCEPT !.messages = Append(@, NewMessage(cid, "user", content, d.now)),
            !.conversations[cid].updated_at = d.now,
            !.now = @ + 1]

\* The history query of routers/ai.py: the messages of the conversation
\* ordered by timestamp ascending, cut after HISTORY_LIMIT rows; the handler
\* passes the result without its last element to the generation client.
RECURSIVE OrderByTimestampAsc(_, _)
OrderByTimestampAsc(d, S) ==
  IF S = {} THEN << >>
  ELSE LET m == CHOOSE x \in S : \A y \in S :
                   d.messages[x].timestamp <= d.messages[y].timestamp
       IN <<m>> \o OrderByTimestampAsc(d, S \ {m})

history_messages(d, cid) ==
  LET rows == OrderByTimestampAsc(d, {m \in 1..Len(d.messages) :
                                        d.messages[m].conversation_id = cid})
  IN IF Len(rows) > HISTORY_LIMIT THEN SubSeq(rows, 1, HISTORY_LIMIT) ELSE rows

AllButLast(s) == IF s = << >> THEN << >> ELSE SubSeq(s, 1, Len(s) - 1)

\* ------------------------------------------------------------------ turns
IdleTurn ==
  [pc |-> "idle", router |-> "none", user |-> "none", form |-> 0, conv |-> 0,
   provider |-> NoProvider, preBal |-> 0, userMsgId |-> 0, history |-> << >>,
   acc |-> << >>, out |-> << >>, hadError |-> FALSE, why |-> "none",
   readBal |-> 0, aiMsgId |-> 0, status |-> 0,
   response_headers |-> {}, sentHeaders |-> {}, instructions |-> << >>]

IdleHook == [pc |-> "idle", user |-> "none", event |-> 0, read |-> 0, n |-> 0, granted |-> << >>]

\* A call of get_or_create_db_user taken step by step: where it stands, the
\* identity it was called for, the conversation it created and what it
\* returned ("None", or the identity of the row).
IdleCall == [pc |-> "idle", user |-> "none", conv |-> 0, result |-> "none"]

NoResp ==
  [op |-> "none", user |-> "none", conv |-> 0, msg |-> 0, repeat |-> FALSE,
   status |-> 0, body |-> << >>]

\* Whether a request repeats the request answered last.
Repeats(op, u, cid, mid) ==
  resp.op = op /\ resp.user = u /\ resp.conv = cid /\ resp.msg = mid

Init ==
  /\ \E present \in SUBSET Users, c \in [Users -> 0..MaxInitCredits] :
       LET d0 == [users |-> {}, credits |-> [u \in Users |-> 0],
                  conversations |-> << >>, messages |-> << >>, now |-> 1]
           dA == IF "A" \in present THEN get_or_create_db_user(d0, "A") ELSE d0
           dB == IF "B" \in present THEN get_or_create_db_user(dA, "B") ELSE dA
       IN /\ users = dB.users
          /\ credits = [u \in Users |-> IF u \in present THEN c[u] ELSE 0]
          /\ conversations = dB.conversations
          /\ messages = dB.messages
          /\ now = dB.now
  /\ turn = [t \in Turns |-> IdleTurn]
  /\ hook = IdleHook
  /\ resp = NoResp
  /\ nops = 0
  /\ nsetup = 0
  /\ calls = [p \in Calls |-> IdleCall]

\* ------------------------------------------------- chat_message_stream
\* routers/ai.py (and main.py): credit pre-check, conversation resolved or
\* created, user message committed, StreamingResponse built with the headers
\* collected so far.
SubmitAi(t, u, cidIn) ==
  /\ turn[t].pc = "idle"
  /\ \A t2 \in Turns : t2 < t => turn[t2].pc # "idle"
  /\ LET d1 == get_or_create_db_user(DB, u)
         base == [IdleTurn EXCEPT !.router = "ai", !.user = u, !.form = cidIn,
                                  !.conv = cidIn,
                                  !.preBal = d1.credits[u]]
     IN IF ~check_credit_status(d1, u)
        THEN /\ Store(d1)
             /\ turn' = [turn EXCEPT ![t] = [base EXCEPT !.pc = "rejected", !.status = 402]]
        ELSE IF cidIn # 0 /\ ~ActiveOwned(d1, u, cidIn)
        THEN /\ Store(d1)
             /\ turn' = [turn EXCEPT ![t] = [base EXCEPT !.pc = "rejected", !.status = 404]]
        ELSE LET d2 == IF cidIn # 0 THEN d1
                       ELSE [d1 EXCEPT !.conversations =
                                          Append(@, NewConversation(u, PROMPT, d1.now)),
                                       !.now = @ + 1]
                 cid == IF cidIn # 0 THEN cidIn ELSE Len(d2.conversations)
                 d3 == SaveUserMessage(d2, cid, PROMPT)
                 hdrs == IF cidIn # 0 THEN {} ELSE {<<"X-Conversation-ID", cid>>}
             IN /\ Store(d3)
                /\ turn' = [turn EXCEPT ![t] =
                              [base EXCEPT !.pc = "streaming", !.conv = cid,
                                           !.userMsgId = Len(d3.messages),
                                           !.history = AllButLast(history_messages(d3, cid)),
                                           !.instructions = applied_system_instruction(<< >>),
                                           !.status = 200,
                                           !.response_headers = hdrs,
                                           !.sentHeaders = hdrs]]
  /\ UNCHANGED <<hook, resp, nops, nsetup, calls>>

\* The same handler when the commit of the user message (routers/ai.py line
\* 88) raises: the pending message and the updated_at change are lost with
\* the transaction and the catch-all answers 500.  A conversation created for
\* the request was committed on its own before (line 68) and stays.
SubmitAiCommitFails(t, u, cidIn) ==
  /\ turn[t].pc = "idle"
  /\ \A t2 \in Turns : t2 < t => turn[t2].pc # "idle"
  /\ LET d1 == get_or_create_db_user(DB, u)
         d2 == IF cidIn # 0 THEN d1
               ELSE [d1 EXCEPT !.conversations =
                                  Append(@, NewConversation(u, PROMPT, d1.now)),
                               !.now = @ + 1]
         cid == IF cidIn # 0 THEN cidIn ELSE Len(d2.conversations)
     IN /\ check_credit_status(d1, u)
        /\ cidIn # 0 => ActiveOwned(d1, u, cidIn)
        /\ Store(d2)
        /\ turn' = [turn EXCEPT ![t] =
                      [IdleTurn EXCEPT !.pc = "rejected", !.router = "ai",
                                       !.user = u, !.form = cidIn, !.conv = cid,
                                       !.preBal = d1.credits[u], !.status = 500]]
  /\ UNCHANGED <<hook, resp, nops, nsetup, calls>>

\* routers/conversations.py: after the user message is committed the handler
\* filters the history on ChatMessage.is_active and reads
\* conversation.system_prompt_override, neither of which the model classes
\* define, and calls stream_and_save with two arguments although it takes
\* one; the first of these raises inside the handler's try block and the
\* catch-all turns it into HTTP 500.  The generator body never runs.
SubmitConv(t, u, cidIn, p) ==
  /\ turn[t].pc = "idle"
  /\ \A t2 \in Turns : t2 < t => turn[t2].pc # "idle"
  /\ LET d1 == get_or_create_db_user(DB, u)
         base == [IdleTurn EXCEPT !.router = "conv", !.user = u, !.form = cidIn,
                                  !.conv = cidIn,
                                  !.provider = p, !.preBal = d1.credits[u]]
     IN IF ~check_credit_status(d1, u)
        THEN /\ Store(d1)
             /\ turn' = [turn EXCEPT ![t] = [base EXCEPT !.pc = "rejected", !.status = 402]]
        ELSE IF cidIn = 0 /\ ActiveConversationsOf(d1, u) = {}
        THEN /\ Store(d1)
             /\ turn' = [turn EXCEPT ![t] = [base EXCEPT !.pc = "rejected", !.status = 400]]
        ELSE IF cidIn # 0 /\ ~ActiveOwned(d1, u, cidIn)
        THEN /\ Store(d1)
             /\ turn' = [turn EXCEPT ![t] = [base EXCEPT !.pc = "rejected", !.status = 404]]
        ELSE LET cid == IF cidIn # 0 THEN cidIn ELSE MostRecentActive(d1, u)
                 d2 == SaveUserMessage(d1, cid, PROMPT)
             IN /\ Store(d2)
                /\ turn' = [turn EXCEPT ![t] =
                              [base EXCEPT !.pc = "error500", !.conv = cid,
                                           !.userMsgId = Len(d2.messages),
                                           !.status = 500]]
  /\ UNCHANGED <<hook, resp, nops, nsetup, calls>>

RECURSIVE ConsumeAi_unflagged(_, _, _, _)
ConsumeAi_unflagged(chunks, acc, err, out) ==
  IF chunks = << >> THEN [acc |-> acc, err |-> err, out |-> out]
  ELSE ConsumeAi_unflagged(Tail(chunks), acc \o Head(chunks), err,
                           Append(out, Head(chunks)))

\* The async-for loop of stream_and_save in routers/ai.py: an error chunk
\* replaces the accumulated text and sets the flag, the loop goes on.
RECURSIVE ConsumeAi(_, _, _, _)
ConsumeAi(chunks, acc, err, out) ==
  IF chunks = << >> THEN [acc |-> acc, err |-> err, out |-> out]
  ELSE LET c == Head(chunks) IN
       IF StartsWith(c, "Error:")
       THEN ConsumeAi(Tail(chunks), c, TRUE, Append(out, c))
       ELSE ConsumeAi(Tail(chunks), acc \o c, err, Append(out, c))

StreamAndRead_keepsEmpty(t, p) ==
  /\ turn[t].pc = "streaming"
  /\ LET r == ConsumeAi(call_google_ai_stream(p), << >>, FALSE, << >>)
         u == turn[t].user
         seen == [turn[t] EXCEPT !.provider = p, !.acc = r.acc, !.out = r.out,
                                 !.hadError = r.err]
     IN IF r.err
        THEN turn' = [turn EXCEPT ![t] =
                        [seen EXCEPT !.pc = "discarded", !.why = "stream_error"]]
        ELSE IF u \notin users \/ NoCreditLeft(credits[u])
        THEN turn' = [turn EXCEPT ![t] =
                        [seen EXCEPT !.pc = "discarded", !.why = "no_credit",
                                     !.readBal = credits[u]]]
        ELSE turn' = [turn EXCEPT ![t] =
                        [seen EXCEPT !.pc = "finalize", !.readBal = credits[u]]]
  /\ UNCHANGED <<users, credits, conversations, messages, now, hook, resp, nops, nsetup, calls>>

\* The stream is consumed (local to the generator); when it ended without
\* error and with text, the finalize unit of work starts with
\* post_stream_db.get(User, user_id), a plain read in a fresh session.
StreamAndRead(t, p) ==
  /\ turn[t].pc = "streaming"
  /\ LET r == ConsumeAi(call_google_ai_stream(p), << >>, FALSE, << >>)
         u == turn[t].user
         seen == [turn[t] EXCEPT !.provider = p, !.acc = r.acc, !.out = r.out,
                                 !.hadError = r.err]
     IN IF r.err \/ r.acc = << >>
        THEN turn' = [turn EXCEPT ![t] =
                        [seen EXCEPT !.pc = "discarded",
                                     !.why = IF r.err THEN "stream_error" ELSE "empty"]]
        ELSE IF u \notin users \/ NoCreditLeft(credits[u])
        THEN turn' = [turn EXCEPT ![t] =
                        [seen EXCEPT !.pc = "discarded", !.why = "no_credit",
                                     !.readBal = credits[u]]]
        ELSE turn' = [turn EXCEPT ![t] =
                        [seen EXCEPT !.pc = "finalize", !.readBal = credits[u]]]
  /\ UNCHANGED <<users, credits, conversations, messages, now, hook, resp, nops, nsetup, calls>>

\* The client goes away after k fragments were forwarded and before the
\* stream is exhausted: the server closes the response generator at its
\* yield (or cancels it while it awaits the provider).  Neither is an
\* Exception, so the except clause does not run, the finally clause does
\* nothing, and the code after the loop (the finalize) is never reached.
ClientDisconnects(t, p, k) ==
  /\ turn[t].pc = "streaming"
  /\ turn[t].router = "ai"
  /\ LET chunks == call_google_ai_stream(p)
         r == ConsumeAi(SubSeq(chunks, 1, k), << >>, FALSE, << >>)
     IN /\ k < Len(chunks)
        /\ turn' = [turn EXCEPT ![t] =
                      [turn[t] EXCEPT !.pc = "discarded", !.why = "disconnected",
                                      !.provider = p, !.acc = r.acc, !.out = r.out,
                                      !.hadError = r.err]]
  /\ UNCHANGED <<users, credits, conversations, messages, now, hook, resp, nops, nsetup, calls>>

FinalizeCommit_blocks(t) ==
  /\ turn[t].pc = "finalize"
  /\ \A t2 \in Turns \ {t} :
       turn[t2].pc = "finalize" => turn[t2].user # turn[t].user
  /\ LET u == turn[t].user
         d1 == [DB EXCEPT !.messages =
                            Append(@, NewMessage(turn[t].conv, "assistant", turn[t].acc, DB.now)),
                          !.credits[u] = turn[t].readBal - 1,
                          !.conversations[turn[t].conv].updated_at = DB.now,
                          !.now = @ + 1]
     IN /\ Store(d1)
        /\ turn' = [turn EXCEPT ![t].pc = "finalized",
                                ![t].aiMsgId = Len(d1.messages)]
  /\ UNCHANGED <<hook, resp, nops, nsetup, calls>>

FinalizeCommit_relative(t) ==
  /\ turn[t].pc = "finalize"
  /\ LET u == turn[t].user
         cid == turn[t].conv
     IN /\ messages' = Append(messages, NewMessage(cid, "assistant", turn[t].acc, now))
        /\ credits' = [credits EXCEPT ![u] = credits[u] - 1]
        /\ conversations' = [conversations EXCEPT ![cid].updated_at = now]
        /\ now' = now + 1
        /\ turn' = [turn EXCEPT ![t].pc = "finalized",
                                ![t].aiMsgId = Len(messages) + 1,
                                ![t].response_headers =
                                   @ \cup {<<"X-User-Credits", credits[u] - 1>>}]
  /\ UNCHANGED <<users, hook, resp, nops, nsetup, calls>>

FinalizeCommit_waits(t) ==
  /\ turn[t].pc = "finalize"
  /\ \A t2 \in Turns : turn[t2].pc = "streaming" => turn[t2].user # turn[t].user
  /\ LET u == turn[t].user
         cid == turn[t].conv
     IN /\ messages' = Append(messages, NewMessage(cid, "assistant", turn[t].acc, now))
        /\ credits' = [credits EXCEPT ![u] = turn[t].readBal - 1]
        /\ conversations' = [conversations EXCEPT ![cid].updated_at = now]
        /\ now' = now + 1
        /\ turn' = [turn EXCEPT ![t].pc = "finalized",
                                ![t].aiMsgId = Len(messages) + 1,
                                ![t].response_headers =
                                   @ \cup {<<"X-User-Credits", turn[t].readBal - 1>>}]
  /\ UNCHANGED <<users, hook, resp, nops, nsetup, calls>>

\* Finalize, commit: assistant message, credits written as read - 1,
\* conversation timestamp; afterwards the handler stores the new balance in
\* the response_headers dict.
FinalizeCommit(t) ==
  /\ turn[t].pc = "finalize"
  /\ LET u == turn[t].user
         cid == turn[t].conv
     IN /\ messages' = Append(messages, NewMessage(cid, "assistant", turn[t].acc, now))
        /\ credits' = [credits EXCEPT ![u] = turn[t].readBal - 1]
        /\ conversations' = [conversations EXCEPT ![cid].updated_at = now]
        /\ now' = now + 1
        /\ turn' = [turn EXCEPT ![t].pc = "finalized",
                                ![t].aiMsgId = Len(messages) + 1,
                                ![t].response_headers =
                                   @ \cup {<<"X-User-Credits", turn[t].readBal - 1>>}]
  /\ UNCHANGED <<users, hook, resp, nops, nsetup, calls>>

FinalizeRollback_reopen(t) ==
  /\ turn[t].pc = "finalize"
  /\ turn' = [turn EXCEPT ![t].pc = "streaming"]
  /\ UNCHANGED <<users, credits, conversations, messages, now, hook, resp, nops, nsetup, calls>>

\* Finalize, DB error: logged, rolled back, nothing yielded.
FinalizeRollback(t) ==
  /\ turn[t].pc = "finalize"
  /\ turn' = [turn EXCEPT ![t].pc = "discarded", ![t].why = "persistence"]
  /\ UNCHANGED <<users, credits, conversations, messages, now, hook, resp, nops, nsetup, calls>>

\* ------------------------------------------------------ payment webhook
\* stripe_webhook_endpoint for a verified checkout.session.completed event
\* with identifier e and payment_status 'paid' naming identity u: the row is
\* read with a plain select, then written back with the top-up added.  The
\* handler keeps no record of the events it has processed; hook.granted is
\* the log of its "granted" lines, one per commit.  K bounds the deliveries.
WebhookRead(u, e, K) ==
  /\ hook.pc = "idle"
  /\ hook.n < K
  /\ IF u \in users
     THEN hook' = [hook EXCEPT !.pc = "read", !.user = u, !.event = e,
                               !.read = credits[u]]
     ELSE hook' = [hook EXCEPT !.n = @ + 1]
  /\ UNCHANGED <<users, credits, conversations, messages, now, turn, resp, nops, nsetup, calls>>

WebhookCommit ==
  /\ hook.pc = "read"
  /\ credits' = [credits EXCEPT ![hook.user] = hook.read + CREDITS_PER_PURCHASE]
  /\ hook' = [IdleHook EXCEPT !.n = hook.n + 1,
                              !.granted = Append(hook.granted, <<hook.user, hook.event>>)]
  /\ UNCHANGED <<users, conversations, messages, now, turn, resp, nops, nsetup, calls>>

\* The whole handler for a verified event ev whose session object names the
\* identity ref ("none": neither client_reference_id nor metadata): only a
\* checkout.session.completed event with payment_status 'paid' and a user
\* reference reaches the database; everything else is acknowledged.
StripeEvents ==
  [id : {1}, type : {"checkout.session.completed", "payment_intent.succeeded"},
   payment_status : {"paid", "unpaid"}]

UserRefs == Users \cup {"none"}

Grants_anyStatus(ev, ref) ==
  ev.type = "checkout.session.completed" /\ ref # "none"

Grants(ev, ref) ==
  ev.type = "checkout.session.completed" /\ ev.payment_status = "paid" /\ ref # "none"

stripe_webhook_endpoint(ev, ref, K) ==
  IF Grants(ev, ref)
  THEN WebhookRead(ref, ev, K)
  ELSE /\ hook.pc = "idle"
       /\ hook.n < K
       /\ hook' = [hook EXCEPT !.n = @ + 1]
       /\ UNCHANGED <<users, credits, conversations, messages, now, turn, resp, nops, nsetup, calls>>

\* ------------------------------- get_or_create_db_user, step by step
\* The select: an existing row is returned at once.
GocSelect(p, u) ==
  /\ calls[p].pc = "idle"
  /\ \A q \in Calls : q < p => calls[q].pc # "idle"
  /\ calls' = [calls EXCEPT ![p] =
                IF u \in users
                THEN [IdleCall EXCEPT !.pc = "done", !.user = u, !.result = u]
                ELSE [IdleCall EXCEPT !.pc = "insert", !.user = u]]
  /\ UNCHANGED <<users, credits, conversations, messages, now, turn, hook, resp, nops, nsetup>>

GocInsertUser_noUnique(p) ==
  /\ calls[p].pc = "insert"
  /\ users' = users \cup {calls[p].user}
  /\ credits' = [credits EXCEPT ![calls[p].user] = 0]
  /\ calls' = [calls EXCEPT ![p].pc = "conversation"]
  /\ UNCHANGED <<conversations, messages, now, turn, hook, resp, nops, nsetup>>

\* The insert and commit of the new row with 0 credits.  The unique
\* constraint on propelauth_user_id makes the commit of a second row for the
\* identity fail; the catch-all rolls back and the call returns None.
GocInsertUser(p) ==
  /\ calls[p].pc = "insert"
  /\ IF calls[p].user \in users
     THEN /\ calls' = [calls EXCEPT ![p].pc = "done", ![p].result = "None"]
          /\ UNCHANGED <<users, credits>>
     ELSE /\ users' = users \cup {calls[p].user}
          /\ credits' = [credits EXCEPT ![calls[p].user] = 0]
          /\ calls' = [calls EXCEPT ![p].pc = "conversation"]
  /\ UNCHANGED <<conversations, messages, now, turn, hook, resp, nops, nsetup>>

\* _create_playground_conversation_internal, first commit.
GocCommitConversation(p) ==
  /\ calls[p].pc = "conversation"
  /\ conversations' = Append(conversations,
                             NewConversation(calls[p].user, <<"New Adventure">>, now))
  /\ now' = now + 1
  /\ calls' = [calls EXCEPT ![p].pc = "welcome", ![p].conv = Len(conversations) + 1]
  /\ UNCHANGED <<users, credits, messages, turn, hook, resp, nops, nsetup>>

\* _create_playground_conversation_internal, second commit; the row is returned.
GocCommitWelcome(p) ==
  /\ calls[p].pc = "welcome"
  /\ messages' = Append(messages,
                        NewMessage(calls[p].conv, "assistant", START_MESSAGE, now))
  /\ now' = now + 1
  /\ calls' = [calls EXCEPT ![p].pc = "done", ![p].result = calls[p].user]
  /\ UNCHANGED <<users, credits, conversations, turn, hook, resp, nops, nsetup>>

\* ------------------------------------- conversation management endpoints
RECURSIVE OrderByUpdatedDesc(_, _)
OrderByUpdatedDesc(d, S) ==
  IF S = {} THEN << >>
  ELSE LET c == CHOOSE x \in S : \A y \in S :
                   d.conversations[y].updated_at <= d.conversations[x].updated_at
       IN <<c>> \o OrderByUpdatedDesc(d, S \ {c})

get_conversations(u) ==
  /\ nops < MaxOps
  /\ LET d1 == get_or_create_db_user(DB, u) IN
     /\ Store(d1)
     /\ resp' = [op |-> "list", user |-> u, conv |-> 0, msg |-> 0, repeat |-> Repeats("list", u, 0, 0), status |-> 200,
                 body |-> OrderByUpdatedDesc(d1, ActiveConversationsOf(d1, u))]
  /\ nops' = nops + 1
  /\ UNCHANGED <<turn, hook, nsetup, calls>>

\* For an owned active conversation the handler goes on to filter on
\* ChatMessage.is_active and to read conversation.context_data, neither of
\* which the model classes define: the AttributeError is caught by the
\* catch-all and answered with HTTP 500.
get_conversation_details(u, cid) ==
  /\ nops < MaxOps
  /\ LET d1 == get_or_create_db_user(DB, u) IN
     /\ Store(d1)
     /\ resp' = [op |-> "details", user |-> u, conv |-> cid, msg |-> 0, repeat |-> Repeats("details", u, cid, 0),
                 status |-> IF ActiveOwned(d1, u, cid) THEN 500 ELSE 404,
                 body |-> << >>]
  /\ nops' = nops + 1
  /\ UNCHANGED <<turn, hook, nsetup, calls>>

update_conversation_title_revive(u, cid, title) ==
  /\ nops < MaxOps
  /\ LET d1 == get_or_create_db_user(DB, u)
         own == cid \in 1..Len(d1.conversations) /\ d1.conversations[cid].user_id = u
     IN /\ Store(IF own
                THEN [d1 EXCEPT !.conversations[cid].title = Strip(title),
                                !.conversations[cid].is_active = TRUE,
                                !.conversations[cid].updated_at = d1.now,
                                !.now = @ + 1]
                ELSE d1)
        /\ resp' = [op |-> "rename", user |-> u, conv |-> cid, msg |-> 0,
                    repeat |-> Repeats("rename", u, cid, 0),
                    status |-> IF own THEN 200 ELSE 404, body |-> << >>]
  /\ nops' = nops + 1
  /\ UNCHANGED <<turn, hook, nsetup, calls>>

update_conversation_title(u, cid, title) ==
  /\ nops < MaxOps
  /\ IF Strip(title) = << >>
     THEN /\ resp' = [op |-> "rename", user |-> u, conv |-> cid, msg |-> 0, repeat |-> Repeats("rename", u, cid, 0), status |-> 400,
                      body |-> << >>]
          /\ UNCHANGED <<users, credits, conversations, messages, now>>
     ELSE LET d1 == get_or_create_db_user(DB, u) IN
          IF ~ActiveOwned(d1, u, cid)
          THEN /\ Store(d1)
               /\ resp' = [op |-> "rename", user |-> u, conv |-> cid, msg |-> 0, repeat |-> Repeats("rename", u, cid, 0), status |-> 404,
                           body |-> << >>]
          ELSE /\ Store([d1 EXCEPT !.conversations[cid].title = Strip(title),
                                   !.conversations[cid].updated_at = d1.now,
                                   !.now = @ + 1])
               /\ resp' = [op |-> "rename", user |-> u, conv |-> cid, msg |-> 0, repeat |-> Repeats("rename", u, cid, 0), status |-> 200,
                           body |-> << >>]
  /\ nops' = nops + 1
  /\ UNCHANGED <<turn, hook, nsetup, calls>>

delete_conversation(u, cid) ==
  /\ nops < MaxOps
  /\ LET d1 == get_or_create_db_user(DB, u) IN
     IF ~ActiveOwned(d1, u, cid)
     THEN /\ Store(d1)
          /\ resp' = [op |-> "delete", user |-> u, conv |-> cid, msg |-> 0, repeat |-> Repeats("delete", u, cid, 0), status |-> 404,
                      body |-> << >>]
     ELSE /\ Store([d1 EXCEPT !.conversations[cid].is_active = FALSE,
                              !.conversations[cid].updated_at = d1.now,
                              !.now = @ + 1])
          /\ resp' = [op |-> "delete", user |-> u, conv |-> cid, msg |-> 0, repeat |-> Repeats("delete", u, cid, 0), status |-> 204,
                      body |-> << >>]
  /\ nops' = nops + 1
  /\ UNCHANGED <<turn, hook, nsetup, calls>>

delete_message_and_after_all(u, cid, mid) ==
  /\ nops < MaxOps
  /\ LET d1 == get_or_create_db_user(DB, u)
         d2 == [d1 EXCEPT !.messages =
                  [m \in 1..Len(d1.messages) |->
                     IF d1.messages[m].conversation_id = cid
                     THEN [d1.messages[m] EXCEPT !.content = << >>]
                     ELSE d1.messages[m]]]
     IN /\ Store(d2)
        /\ resp' = [op |-> "rewind", user |-> u, conv |-> cid, msg |-> mid,
                    repeat |-> Repeats("rewind", u, cid, mid),
                    status |-> 204, body |-> << >>]
  /\ nops' = nops + 1
  /\ UNCHANGED <<turn, hook, nsetup, calls>>

delete_message_and_after_touch(u, cid, mid) ==
  /\ nops < MaxOps
  /\ LET d1 == get_or_create_db_user(DB, u) IN
     /\ Store([d1 EXCEPT !.conversations[cid].updated_at = d1.now, !.now = @ + 1])
     /\ resp' = [op |-> "rewind", user |-> u, conv |-> cid, msg |-> mid,
                 repeat |-> Repeats("rewind", u, cid, mid),
                 status |-> 500, body |-> << >>]
  /\ nops' = nops + 1
  /\ UNCHANGED <<turn, hook, nsetup, calls>>

\* The handler's first query filters on ChatMessage.is_active, an attribute
\* the model class does not have; building the query raises AttributeError
\* outside any try block and the request is answered with HTTP 500, whatever
\* conversation and message it names.  Only get_or_create_db_user has run.
delete_message_and_after(u, cid, mid) ==
  /\ nops < MaxOps
  /\ LET d1 == get_or_create_db_user(DB, u) IN
     /\ Store(d1)
     /\ resp' = [op |-> "rewind", user |-> u, conv |-> cid, msg |-> mid, repeat |-> Repeats("rewind", u, cid, mid),
                 status |-> 500, body |-> << >>]
  /\ nops' = nops + 1
  /\ UNCHANGED <<turn, hook, nsetup, calls>>

save_setup_context_halfway(u, cidIn) ==
  /\ nsetup < MaxSetups
  /\ LET d1 == get_or_create_db_user(DB, u)
         d2 == [d1 EXCEPT !.conversations =
                            Append(@, NewConversation(u, <<"goal">>, d1.now)),
                          !.now = @ + 1]
         cid == Len(d2.conversations)
     IN /\ Store(IF cidIn = 0 /\ check_credit_status(d1, u)
                THEN SaveUserMessage(d2, cid, PROMPT)
                ELSE IF cidIn = 0 THEN d2 ELSE d1)
        /\ resp' = [op |-> "setup", user |-> u,
                    conv |-> IF cidIn = 0 THEN cid ELSE cidIn, msg |-> 0,
                    repeat |-> Repeats("setup", u, IF cidIn = 0 THEN cid ELSE cidIn, 0),
                    status |-> IF cidIn = 0 THEN 204
                               ELSE IF ActiveOwned(d1, u, cidIn) THEN 500 ELSE 404,
                    body |-> << >>]
  /\ nsetup' = nsetup + 1
  /\ UNCHANGED <<turn, hook, nops, calls>>

\* save_setup_context.  Editing: assigning conversation.context_data, a
\* field models.Conversation does not define, raises and the catch-all rolls
\* back and answers 500.  Creating: the conversation is committed first; the
\* initial exchange calls call_google_ai_stream with a keyword it does not
\* accept, the TypeError is recorded as a stream error and the pending user
\* message is rolled back, so no message is stored and no credit is spent.
\* The constructor is handed system_prompt_override, which the Conversation
\* class has no column for: the value is dropped, and resp keeps what the
\* request asked to store.
save_setup_context(u, cidIn) ==
  /\ nsetup < MaxSetups
  /\ LET d1 == get_or_create_db_user(DB, u) IN
     IF cidIn # 0
     THEN /\ Store(d1)
          /\ resp' = [op |-> "setup", user |-> u, conv |-> cidIn, msg |-> 0, repeat |-> Repeats("setup", u, cidIn, 0),
                      status |-> IF ActiveOwned(d1, u, cidIn) THEN 500 ELSE 404,
                      body |-> << >>]
     ELSE /\ Store([d1 EXCEPT !.conversations =
                                 Append(@, NewConversation(u, <<"goal">>, d1.now)),
                              !.now = @ + 1])
          /\ \E sp \in SystemPrompts :
               resp' = [op |-> "setup", user |-> u, conv |-> Len(d1.conversations) + 1, msg |-> 0, repeat |-> Repeats("setup", u, Len(d1.conversations) + 1, 0),
                        status |-> 204, body |-> << >>,
                        system_prompt_override |-> sp]
  /\ nsetup' = nsetup + 1
  /\ UNCHANGED <<turn, hook, nops, calls>>

Titles == {<< >>, <<" ">>, <<"t">>}

ConvIds == 1..Len(conversations)

\* What the provider would answer to a turn of routers/conversations.py,
\* which never gets as far as calling it.
ConvProviders ==
  {p \in BasicProviders : p.configured /\ Len(p.chunks) > 0 /\ Len(p.chunks[1]) > 0}

TurnStep(T, P) ==
  \/ \E t \in T, u \in Users, c \in {0} \cup ConvIds : SubmitAi(t, u, c)
  \/ \E t \in T, u \in Users, c \in {0} \cup ConvIds, p \in ConvProviders :
       SubmitConv(t, u, c, p)
  \/ \E t \in T, p \in P : StreamAndRead(t, p)
  \/ \E t \in T : FinalizeCommit(t)
  \/ \E t \in T : FinalizeRollback(t)

WebhookStep(E, K) ==
  \/ \E u \in Users, e \in E : WebhookRead(u, e, K)
  \/ WebhookCommit

\* The turn pipeline with concurrent turns and top-ups.
Next == TurnStep(Turns, Providers) \/ WebhookStep({1}, MaxTopups)

Spec == Init /\ [][Next]_vars

\* The ledger: the pipeline, top-ups and the setup flow creating conversations.
NextLedger ==
  \/ TurnStep(Turns, BasicProviders)
  \/ WebhookStep({1}, MaxTopups)
  \/ \E u \in Users : save_setup_context(u, 0)

SpecLedger == Init /\ [][NextLedger]_vars

\* The conversation management endpoints next to a turn.
NextOps ==
  \/ TurnStep(OpsTurns, BasicProviders)
  \/ \E u \in Users : get_conversations(u)
  \/ \E u \in Users, c \in ConvIds : get_conversation_details(u, c)
  \/ \E u \in Users, c \in ConvIds, ti \in Titles : update_conversation_title(u, c, ti)
  \/ \E u \in Users, c \in ConvIds : delete_conversation(u, c)
  \/ \E u \in Users, c \in ConvIds, m \in 1..Len(messages) : delete_message_and_after(u, c, m)
  \/ \E u \in Users, c \in ConvIds : save_setup_context(u, c)

SpecOps == Init /\ [][NextOps]_vars

\* One turn on a conversation that already holds up to MaxStored messages
\* after its welcome message, left there by earlier finalized turns.
StoredExchange(n) ==
  [i \in 1..n |-> NewMessage(1, IF i % 2 = 1 THEN "user" ELSE "assistant",
                              IF i % 2 = 1 THEN PROMPT ELSE <<"a", "b">>, i + 2)]

InitHistory ==
  /\ \E n \in 0..MaxStored :
       LET d0 == [users |-> {}, credits |-> [u \in Users |-> 0],
                  conversations |-> << >>, messages |-> << >>, now |-> 1]
           dA == get_or_create_db_user(d0, "A")
       IN /\ users = dA.users
          /\ credits = [dA.credits EXCEPT !["A"] = 1]
          /\ conversations = [dA.conversations EXCEPT ![1].updated_at = n + 2]
          /\ messages = dA.messages \o StoredExchange(n)
          /\ now = dA.now + n
  /\ turn = [t \in Turns |-> IdleTurn]
  /\ hook = IdleHook
  /\ resp = NoResp
  /\ nops = 0
  /\ nsetup = 0
  /\ calls = [p \in Calls |-> IdleCall]

SpecHistory == InitHistory /\ [][TurnStep(OpsTurns, BasicProviders)]_vars

\* One turn whose user-message commit may fail.
NextFault ==
  \/ TurnStep(OpsTurns, BasicProviders)
  \/ \E t \in OpsTurns, u \in Users, c \in {0} \cup ConvIds : SubmitAiCommitFails(t, u, c)

SpecFault == Init /\ [][NextFault]_vars

\* Every endpoint that could touch a balance: a turn, the conversation
\* management endpoints, the setup flow and top-ups.
NextFrame == NextOps \/ WebhookStep({1}, MaxTopups)

SpecFrame == Init /\ [][NextFrame]_vars

\* Verified webhook events of every kind, for known and unknown identities.
NextWebhook ==
  \/ \E ev \in StripeEvents, ref \in UserRefs :
       stripe_webhook_endpoint(ev, ref, MaxDeliveries)
  \/ WebhookCommit

SpecWebhook == Init /\ [][NextWebhook]_vars

\* Concurrent first contacts: calls of get_or_create_db_user interleaved
\* commit by commit.
NextUsers ==
  \/ \E p \in Calls, u \in Users : GocSelect(p, u)
  \/ \E p \in Calls : GocInsertUser(p)
  \/ \E p \in Calls : GocCommitConversation(p)
  \/ \E p \in Calls : GocCommitWelcome(p)

SpecUsers == Init /\ [][NextUsers]_vars

\* One turn whose client may disconnect while the reply is streamed.
NextCancel ==
  \/ TurnStep(OpsTurns, BasicProviders)
  \/ \E t \in OpsTurns, p \in BasicProviders, k \in 0..MaxForwarded : ClientDisconnects(t, p, k)

SpecCancel == Init /\ [][NextCancel]_vars

\* The pipeline under fair scheduling: the server keeps running a response
\* generator whose provider stream is finite, and runs its finalize once the
\* stream has ended.  A failing commit is never forced.
NextLive == TurnStep(Turns, BasicProviders) \/ WebhookStep({1}, MaxTopups)

SpecLive ==
  /\ Init
  /\ [][NextLive]_vars
  /\ \A t \in Turns : WF_vars(\E p \in BasicProviders : StreamAndRead(t, p))
  /\ \A t \in Turns : WF_vars(FinalizeCommit(t))

\* Payment events, delivered more than once, next to a turn.
Events == 1..MaxEvents

NextPay == TurnStep(OpsTurns, BasicProviders) \/ WebhookStep(Events, MaxDeliveries)

SpecPay == Init /\ [][NextPay]_vars

TypeOK ==
  /\ users \subseteq Users
  /\ \A u \in Users : credits[u] \in Int
  /\ \A t \in Turns : turn[t].pc \in {"idle", "rejected", "error500", "streaming",
                                      "finalize", "finalized", "discarded"}
  /\ hook.pc \in {"idle", "read"}
  /\ hook.n \in 0..MaxDeliveries
  /\ nops \in 0..MaxOps
  /\ nsetup \in 0..MaxSetups

\* ================================================================ claims
Terminal(t) == turn[t].pc \in {"rejected", "error500", "finalized", "discarded"}

Accepted(t) == turn[t].pc \in {"error500", "streaming", "finalize", "finalized", "discarded"}

NoTopUp == hook.pc = "idle" /\ hook.granted = << >>

IsTurnReply(m) == m.role = "assistant" /\ m.content # START_MESSAGE

TurnReplies == {m \in 1..Len(messages) : IsTurnReply(messages[m])}

AppendsReply(t) ==
  /\ Len(messages') = Len(messages) + 1
  /\ SubSeq(messages', 1, Len(messages)) = messages
  /\ messages'[Len(messages')].role = "assistant"
  /\ messages'[Len(messages')].conversation_id = turn[t].conv

NoReplyAdded ==
  /\ Len(messages') >= Len(messages)
  /\ SubSeq(messages', 1, Len(messages)) = messages
  /\ \A m \in 1..Len(messages') : m > Len(messages) => ~IsTurnReply(messages'[m])

IsMarker(chunk) == StartsWith(chunk, "FINAL_PAYLOAD")

\* C1: two turns of one user through routers/conversations.py that both
\* passed the credit pre-check at balance 1, with a provider that would
\* answer both with text: once both have returned, exactly one is finalized
\* with the single assistant message, the other was stopped by the finalize
\* balance check, and the balance is 0.
C1_ConvRaceOneFinalizes ==
  \A t1, t2 \in Turns :
    ( /\ t1 # t2
      /\ turn[t1].router = "conv" /\ turn[t2].router = "conv"
      /\ turn[t1].user = turn[t2].user
      /\ turn[t1].preBal = 1 /\ turn[t2].preBal = 1
      /\ turn[t1].status \notin {400, 404} /\ turn[t2].status \notin {400, 404}
      /\ ProviderHealthy(turn[t1].provider) /\ ProviderHealthy(turn[t2].provider)
      /\ Terminal(t1) /\ Terminal(t2)
      /\ NoTopUp )
    => /\ turn[t1].pc = "finalized" \/ turn[t2].pc = "finalized"
       /\ turn[t1].pc = "discarded" \/ turn[t2].pc = "discarded"
       /\ credits[turn[t1].user] = 0

\* C2: two turns of one user through routers/ai.py that both passed the
\* credit pre-check at balance 1, without a top-up, are never both finalized.
C2_AiRaceAtMostOneFinalizes ==
  \A t1, t2 \in Turns :
    ( /\ t1 # t2
      /\ turn[t1].router = "ai" /\ turn[t2].router = "ai"
      /\ turn[t1].user = turn[t2].user
      /\ turn[t1].preBal = 1 /\ turn[t2].preBal = 1
      /\ NoTopUp )
    => ~(turn[t1].pc = "finalized" /\ turn[t2].pc = "finalized")

\* C3: the step that finalizes a turn appends exactly one message, an
\* assistant message of the turn's conversation, and leaves the user's
\* balance at the value read in the finalize step minus one; every other
\* step of an accepted turn (up to and including the one that discards it)
\* adds no assistant reply and changes no balance; Finalized and Discarded
\* are final.
C3_TurnOutcome ==
  [][\A t \in Turns :
       /\ (turn[t].pc \in {"finalized", "discarded"} => turn'[t] = turn[t])
       /\ (turn'[t] # turn[t] =>
             IF turn'[t].pc = "finalized"
             THEN /\ AppendsReply(t)
                  /\ credits' = [credits EXCEPT ![turn[t].user] = turn[t].readBal - 1]
             ELSE turn'[t].pc \in {"streaming", "error500", "finalize", "discarded"}
                    => NoReplyAdded /\ credits' = credits)]_vars

C3_Witness ==
  \E t1, t2 \in Turns :
    /\ turn[t1].pc = "finalized" /\ turn[t1].aiMsgId \in TurnReplies
    /\ turn[t2].pc = "discarded" /\ turn[t2].why = "no_credit"

\* C4: every stored balance is at least 0.
C4_NonNegativeBalance == \A u \in Users : credits[u] >= 0

C4_Witness ==
  /\ nsetup > 0
  /\ hook.n > 0
  /\ \E t1, t2 \in Turns :
       /\ t1 # t2 /\ turn[t1].user = turn[t2].user
       /\ turn[t1].pc = "finalized" /\ turn[t2].pc = "finalized"

\* C5: a finalize unit of work that ends without a top-up in between either
\* adds the assistant message, lowers the stored balance of its user by one
\* and bumps the conversation timestamp in the same step, or leaves
\* messages, balances and conversations all as before; no step adds an
\* assistant reply without lowering the balance, and no step lowers a balance
\* without adding the reply.
C5_FinalizeAllOrNothing ==
  [][NoTopUp =>
       /\ \A t \in Turns :
            (turn[t].pc = "finalize" /\ turn'[t].pc # "finalize") =>
               \/ /\ turn'[t].pc = "finalized"
                  /\ AppendsReply(t)
                  /\ credits'[turn[t].user] = credits[turn[t].user] - 1
                  /\ conversations'[turn[t].conv].updated_at
                       > conversations[turn[t].conv].updated_at
               \/ /\ turn'[t].pc = "discarded"
                  /\ messages' = messages
                  /\ credits' = credits
                  /\ conversations' = conversations
       /\ (~NoReplyAdded \/ \E u \in Users : credits'[u] < credits[u]) =>
            \E t \in Turns : /\ turn[t].pc = "finalize" /\ turn'[t].pc = "finalized"
                             /\ AppendsReply(t)
                             /\ credits'[turn[t].user] = credits[turn[t].user] - 1]_vars

\* C6: from the moment a turn is accepted its user message is a stored row
\* of its conversation, in every later state whatever the outcome, and it is
\* already stored in the state in which the generation client is called.
UserMessageStored(t) ==
  /\ turn[t].userMsgId \in 1..Len(messages)
  /\ messages[turn[t].userMsgId].role = "user"
  /\ messages[turn[t].userMsgId].conversation_id = turn[t].conv
  /\ messages[turn[t].userMsgId].content = PROMPT

C6_UserMessageFirst ==
  [][\A t \in Turns :
       /\ (turn'[t].pc \in {"error500", "streaming", "finalize", "finalized", "discarded"}
             => /\ turn'[t].userMsgId \in 1..Len(messages')
                /\ messages'[turn'[t].userMsgId].role = "user"
                /\ messages'[turn'[t].userMsgId].conversation_id = turn'[t].conv
                /\ messages'[turn'[t].userMsgId].content = PROMPT)
       /\ ((turn[t].pc = "streaming" /\ turn'[t].pc # "streaming")
             => UserMessageStored(t))
       /\ (turn[t].pc = "idle" => turn'[t].out = << >>)]_vars

C6_Witness ==
  \E t1, t2 \in Turns :
    /\ turn[t1].pc = "discarded" /\ turn[t1].why = "stream_error" /\ UserMessageStored(t1)
    /\ turn[t2].pc = "finalized" /\ UserMessageStored(t2)

\* C7 as stated: a submission that finds a balance <= 0 answers 402 and
\* changes no user, conversation or message row, and reaches no provider.
C7_RejectedNoSideEffects ==
  [][\A t \in Turns :
       (turn[t].pc = "idle" /\ turn'[t].pc # "idle" /\ turn'[t].preBal <= 0) =>
          /\ turn'[t].status = 402
          /\ turn'[t].out = << >>
          /\ users' = users /\ credits' = credits
          /\ conversations' = conversations /\ messages' = messages]_vars

\* C7 amended: a submission by a user whose row exists with a balance <= 0
\* answers 402, changes no user, conversation or message row, never reaches
\* the provider, and stays rejected.
C7_ExistingUserRejected ==
  [][\A t \in Turns :
       /\ (turn[t].pc = "idle" /\ turn'[t].pc # "idle"
             /\ turn'[t].user \in users /\ credits[turn'[t].user] <= 0) =>
            /\ turn'[t].status = 402
            /\ turn'[t].pc = "rejected"
            /\ turn'[t].out = << >>
            /\ users' = users /\ credits' = credits
            /\ conversations' = conversations /\ messages' = messages
       /\ (turn[t].pc = "rejected" => turn'[t] = turn[t])]_vars

C7_Witness ==
  \E t1, t2 \in Turns :
    /\ turn[t1].pc = "finalized"
    /\ turn[t2].pc = "rejected" /\ turn[t2].status = 402
    /\ turn[t2].user = turn[t1].user
    /\ turn[t2].userMsgId = 0

\* C8: what a step by principal u may touch.
Foreign(u, c) == c \in 1..Len(conversations) /\ conversations[c].user_id # u

OthersUntouched(u) ==
  /\ Len(conversations') >= Len(conversations)
  /\ Len(messages') >= Len(messages)
  /\ \A c \in 1..Len(conversations) :
       /\ conversations'[c].user_id = conversations[c].user_id
       /\ Foreign(u, c) => conversations'[c] = conversations[c]
  /\ \A c \in 1..Len(conversations') :
       c > Len(conversations) => conversations'[c].user_id = u
  /\ \A m \in 1..Len(messages) :
       /\ messages'[m].conversation_id = messages[m].conversation_id
       /\ Foreign(u, messages[m].conversation_id) => messages'[m] = messages[m]
  /\ \A m \in 1..Len(messages') :
       m > Len(messages) => conversations'[messages'[m].conversation_id].user_id = u
  /\ \A v \in Users \ {u} : credits'[v] = credits[v] /\ (v \in users' <=> v \in users)

OwnBody(r) == \A i \in 1..Len(r.body) : conversations'[r.body[i]].user_id = r.user

EndpointReturned == nops' # nops \/ nsetup' # nsetup

\* C8: every step of a principal leaves the other users' rows as they were
\* and lists only own conversations, and every request naming another
\* user's conversation is refused as not found (404), or, where the handler
\* decides it before looking the conversation up, as lacking credit (402, a
\* turn submission) or as a blank title (400, a rename).
C8_Isolation ==
  [][/\ EndpointReturned =>
          /\ OthersUntouched(resp'.user)
          /\ OwnBody(resp')
          /\ (Foreign(resp'.user, resp'.conv) =>
                \/ resp'.status = 404
                \/ resp'.op = "rename" /\ resp'.status = 400)
     /\ \A t \in Turns : turn'[t] # turn[t] =>
          /\ OthersUntouched(turn'[t].user)
          /\ ((turn[t].pc = "idle" /\ Foreign(turn'[t].user, turn'[t].conv)) =>
                \/ turn'[t].status = 404
                \/ turn'[t].status = 402 /\ turn'[t].preBal <= 0)]_vars

\* C9: a finalized turn has sent the completion marker exactly once, as its
\* last fragment, carrying the ids of its user message and of its assistant
\* message; a turn that ended otherwise has sent none.
C9_MarkerIffFinalized ==
  \A t \in Turns :
    /\ turn[t].pc = "finalized" =>
         /\ Len(turn[t].out) > 0
         /\ IsMarker(turn[t].out[Len(turn[t].out)])
         /\ turn[t].out[Len(turn[t].out)][2] = turn[t].userMsgId
         /\ turn[t].out[Len(turn[t].out)][3] = turn[t].aiMsgId
         /\ \A i \in 1..(Len(turn[t].out) - 1) : ~IsMarker(turn[t].out[i])
    /\ (Terminal(t) /\ turn[t].pc # "finalized") =>
         \A i \in 1..Len(turn[t].out) : ~IsMarker(turn[t].out[i])

\* C10: the response of a finalized turn carries the balance after the
\* decrement, in a header of the response or in the completion marker.
C10_ClientGetsNewBalance ==
  \A t \in Turns :
    turn[t].pc = "finalized" =>
      \/ <<"X-User-Credits", credits[turn[t].user]>> \in turn[t].sentHeaders
      \/ <<"X-User-Credits", turn[t].readBal - 1>> \in turn[t].sentHeaders
      \/ \E i \in 1..Len(turn[t].out) : IsMarker(turn[t].out[i])

\* C11: every stored assistant message has, in its conversation, a user
\* message stored before it whose timestamp is the greatest one below its
\* own (nothing of the conversation lies between the two).
PrecededByUserMessage(i) ==
  \E j \in 1..(i - 1) :
    /\ messages[j].conversation_id = messages[i].conversation_id
    /\ messages[j].role = "user"
    /\ messages[j].timestamp < messages[i].timestamp
    /\ \A k \in 1..Len(messages) :
         messages[k].conversation_id = messages[i].conversation_id =>
           ~(messages[j].timestamp < messages[k].timestamp
               /\ messages[k].timestamp < messages[i].timestamp)

C11_AssistantAfterUser ==
  \A i \in 1..Len(messages) :
    messages[i].role = "assistant" => PrecededByUserMessage(i)

\* C12: a rewind that names a message of an active conversation of the
\* caller succeeds (204) and changes the stored row of that message, and it
\* changes no message of any other conversation.
RewindReturned == nops' # nops /\ resp'.op = "rewind"

OwnMessage(u, cid, mid) ==
  /\ u \in users
  /\ ActiveOwned(DB, u, cid)
  /\ mid \in 1..Len(messages)
  /\ messages[mid].conversation_id = cid

C12_RewindDeactivatesSuffix ==
  [][(RewindReturned /\ OwnMessage(resp'.user, resp'.conv, resp'.msg)) =>
       /\ resp'.status = 204
       /\ messages'[resp'.msg] # messages[resp'.msg]
       /\ \A m \in 1..Len(messages) :
            messages[m].conversation_id # resp'.conv => messages'[m] = messages[m]]_vars

\* C13: a rewind that repeats the rewind answered just before it (same
\* caller, conversation and message) changes no user, balance, conversation
\* or message row.
C13_RewindIdempotent ==
  [][(RewindReturned /\ resp'.repeat) =>
       /\ users' = users /\ credits' = credits
       /\ conversations' = conversations /\ messages' = messages]_vars

C13_Witness ==
  /\ resp.op = "rewind" /\ resp.repeat
  /\ OwnMessage(resp.user, resp.conv, resp.msg)

\* C14: a history read of an active conversation of the caller answers 200
\* with exactly the messages of that conversation, each once, in strictly
\* increasing timestamp order.
MessagesOf(cid) == {m \in 1..Len(messages) : messages[m].conversation_id = cid}

C14_HistoryOrdered ==
  [][(nops' # nops /\ resp'.op = "details" /\ resp'.user \in users
        /\ ActiveOwned(DB, resp'.user, resp'.conv)) =>
       /\ resp'.status = 200
       /\ {resp'.body[i] : i \in 1..Len(resp'.body)} = MessagesOf(resp'.conv)
       /\ \A i, j \in 1..Len(resp'.body) :
            i < j => messages[resp'.body[i]].timestamp < messages[resp'.body[j]].timestamp]_vars

\* C15: no payment event is granted more than once to a user.
GrantsOf(u, e) == {i \in 1..Len(hook.granted) : hook.granted[i] = <<u, e>>}

C15_WebhookIdempotent ==
  \A u \in Users, e \in Events : Cardinality(GrantsOf(u, e)) <= 1

\* C16: the step that discards a turn because its stream carried an error
\* fragment or no text leaves every balance as it was, and the fragments sent
\* to the client by then include an error fragment.
IsErrorFragment(chunk) == StartsWith(chunk, "Error:")

C16_DiscardShowsError ==
  [][\A t \in Turns :
       (turn[t].pc = "streaming" /\ turn'[t].pc = "discarded"
          /\ turn'[t].why \in {"stream_error", "empty"}) =>
         /\ credits' = credits
         /\ \E i \in 1..Len(turn'[t].out) : IsErrorFragment(turn'[t].out[i])]_vars

\* C17: once a turn was discarded on a provider error, a new turn of the
\* same user naming the same conversation while the balance is > 0 is
\* accepted and its stream opened, the only way on to Finalized.
C17_ResubmitAfterDiscard ==
  [][\A t1, t2 \in Turns :
       (/\ turn[t1].pc = "discarded" /\ turn[t1].why = "stream_error"
        /\ turn[t2].pc = "idle" /\ turn'[t2].pc # "idle"
        /\ turn'[t2].user = turn[t1].user
        /\ turn'[t2].form = turn[t1].conv
        /\ turn'[t2].preBal > 0) =>
         turn'[t2].pc = "streaming"]_vars

\* C18: a turn submitted without a conversation identifier by an existing
\* user with credit goes to that user's most recently updated active
\* conversation and creates no conversation; when the user has no active
\* conversation it is rejected and no conversation or message is stored.
C18_DefaultsToMostRecent ==
  [][\A t \in Turns :
       (/\ turn[t].pc = "idle" /\ turn'[t].pc # "idle"
        /\ turn'[t].form = 0
        /\ turn'[t].user \in users
        /\ turn'[t].preBal > 0) =>
         IF ActiveConversationsOf(DB, turn'[t].user) = {}
         THEN /\ turn'[t].pc = "rejected"
              /\ conversations' = conversations /\ messages' = messages
         ELSE /\ turn'[t].pc # "rejected"
              /\ Len(conversations') = Len(conversations)
              /\ turn'[t].conv = MostRecentActive(DB, turn'[t].user)
              /\ messages'[turn'[t].userMsgId].conversation_id = turn'[t].conv]_vars

\* C19: no step removes a conversation or a message row; a conversation its
\* owner has deleted is not listed, and every request of the owner naming it
\* is refused as not found (or, decided before the lookup, 402 for a turn
\* without credit and 400 for a blank title) and changes no stored row.
DeletedIn(convs, c) == c \in 1..Len(convs) /\ ~convs[c].is_active

Deleted(c) == DeletedIn(conversations, c)

StoreUnchanged ==
  /\ users' = users /\ credits' = credits
  /\ conversations' = conversations /\ messages' = messages

C19_SoftDeleteOnly ==
  [][/\ Len(conversations') >= Len(conversations)
     /\ Len(messages') >= Len(messages)
     /\ \A c \in 1..Len(conversations) : Deleted(c) => DeletedIn(conversations', c)
     /\ (nops' # nops /\ resp'.op = "delete" /\ resp'.status = 204) =>
          /\ DeletedIn(conversations', resp'.conv)
          /\ \A m \in MessagesOf(resp'.conv) : messages'[m] = messages[m]
     /\ (nops' # nops /\ resp'.op = "list") =>
          \A i \in 1..Len(resp'.body) : ~Deleted(resp'.body[i])
     /\ (EndpointReturned /\ Deleted(resp'.conv)
           /\ resp'.user = conversations[resp'.conv].user_id) =>
          /\ StoreUnchanged
          /\ \/ resp'.status = 404
             \/ resp'.op = "rename" /\ resp'.status = 400
     /\ \A t \in Turns :
          (/\ turn[t].pc = "idle" /\ turn'[t].pc # "idle"
           /\ Deleted(turn'[t].form)
           /\ turn'[t].user = conversations[turn'[t].form].user_id) =>
            /\ StoreUnchanged
            /\ \/ turn'[t].status = 404
               \/ turn'[t].status = 402 /\ turn'[t].preBal <= 0]_vars

\* C20: a turn changes stage only forwards: from Idle through the credit
\* check to a rejection, or on through the saving of its user message to a
\* handler error or to Streaming; from Streaming to the finalize unit or to
\* Discarded; from the finalize unit to Finalized or to Discarded.  The
\* stream is consumed only with the user message stored, the finalize unit
\* holds the complete stream, and an ended turn never changes again.
StageSteps ==
  { <<"idle", "rejected">>, <<"idle", "error500">>, <<"idle", "streaming">>,
    <<"streaming", "finalize">>, <<"streaming", "discarded">>,
    <<"finalize", "finalized">>, <<"finalize", "discarded">> }

C20_TurnStages ==
  [][\A t \in Turns :
       /\ (turn'[t].pc # turn[t].pc => <<turn[t].pc, turn'[t].pc>> \in StageSteps)
       /\ (turn'[t].pc = turn[t].pc => turn'[t] = turn[t])
       /\ (turn'[t].out # turn[t].out => turn[t].pc = "streaming" /\ UserMessageStored(t))
       /\ (turn'[t].pc \in {"idle", "rejected", "error500", "streaming"}
             => turn'[t].out = << >> /\ turn'[t].aiMsgId = 0)
       /\ (turn'[t].pc = "finalize" =>
             turn'[t].out = call_google_ai_stream(turn'[t].provider))
       /\ (turn[t].pc = "finalize" => turn'[t].out = turn[t].out)
       /\ (turn'[t].aiMsgId # 0 <=> turn'[t].pc = "finalized")]_vars

C20_Witness ==
  \E t1, t2 \in Turns :
    /\ turn[t1].pc = "finalized" /\ turn[t1].router = "ai"
    /\ turn[t2].pc = "discarded" /\ turn[t2].why = "persistence"

C22_TopUpAndDebitBothCount ==
  [][/\ (hook.pc = "read" /\ hook'.pc = "idle") =>
          credits'[hook.user] = credits[hook.user] + CREDITS_PER_PURCHASE
     /\ \A t \in Turns :
          (turn[t].pc = "finalize" /\ turn'[t].pc = "finalized") =>
             credits'[turn[t].user] = credits[turn[t].user] - 1]_vars

SignalsError(p) == ~p.configured \/ p.fails

HoldsErrorText(content) == \E i \in 1..Len(content) : content[i] = "Error:"

C24_NoErrorTextStored ==
  [][/\ \A t \in Turns :
          (turn[t].pc = "streaming" /\ turn'[t].pc # "streaming"
             /\ SignalsError(turn'[t].provider)) =>
            /\ turn'[t].pc = "discarded"
            /\ messages' = messages /\ credits' = credits
     /\ \A m \in 1..Len(messages') :
          messages'[m].role = "assistant" => ~HoldsErrorText(messages'[m].content)]_vars

C24_Witness ==
  \E t \in Turns :
    /\ turn[t].pc = "discarded" /\ turn[t].why = "stream_error"
    /\ turn[t].provider.fails /\ Len(turn[t].provider.chunks) > 0
    /\ Len(turn[t].out) > 1
    /\ HoldsErrorText(turn[t].acc)
    /\ TurnReplies = {}

\* C25: a turn whose stream completed normally with some generated text,
\* and which was not stopped by the finalize balance check or a persistence
\* failure, is finalized.
GeneratesText(p) ==
  /\ p.configured /\ ~p.fails
  /\ \E i \in 1..Len(p.chunks) : Len(p.chunks[i]) > 0

C25_ContentNeverAnError ==
  \A t \in Turns :
    ( /\ turn[t].router = "ai"
      /\ turn[t].pc \in {"finalized", "discarded"}
      /\ GeneratesText(turn[t].provider)
      /\ turn[t].why \notin {"no_credit", "persistence"} )
    => turn[t].pc = "finalized"

\* The messages of a turn's conversation that were stored before the turn's
\* own user message, and the set of messages its history holds.
EarlierMessages(t) ==
  {m \in 1..Len(messages) : /\ messages[m].conversation_id = turn[t].conv
                            /\ m < turn[t].userMsgId}

HistorySet(t) == {turn[t].history[i] : i \in 1..Len(turn[t].history)}

HasHistory(t) ==
  turn[t].router = "ai" /\ turn[t].pc \in {"streaming", "finalize", "finalized", "discarded"}

\* C26: the history handed to the generation client leaves out the turn's
\* own user message, holds at most HISTORY_LIMIT messages in ascending
\* timestamp order, all of them earlier messages of the conversation, and
\* leaves out an earlier message only when HISTORY_LIMIT are handed over.
C26_HistoryBounded ==
  \A t \in Turns :
    HasHistory(t) =>
      LET h == turn[t].history
      IN /\ turn[t].userMsgId \notin HistorySet(t)
         /\ Len(h) <= HISTORY_LIMIT
         /\ \A i \in 1..(Len(h) - 1) :
              messages[h[i]].timestamp <= messages[h[i + 1]].timestamp
         /\ HistorySet(t) \subseteq EarlierMessages(t)
         /\ (HistorySet(t) # EarlierMessages(t)) => Len(h) = HISTORY_LIMIT

\* C27: when the conversation holds more earlier messages than HISTORY_LIMIT,
\* every earlier message left out of the history is older than every
\* message in it.
C27_HistoryMostRecent ==
  \A t \in Turns :
    (HasHistory(t) /\ Cardinality(EarlierMessages(t)) > HISTORY_LIMIT) =>
      \A m \in EarlierMessages(t) \ HistorySet(t) :
        \A k \in HistorySet(t) :
          messages[m].timestamp < messages[k].timestamp

\* C28: the history followed by the new prompt alternates roles: no two
\* neighbouring history entries have the same role and the last entry is
\* not a user message.
C28_HistoryAlternates ==
  \A t \in Turns :
    HasHistory(t) =>
      LET h == turn[t].history
      IN /\ \A i \in 1..(Len(h) - 1) :
              messages[h[i]].role # messages[h[i + 1]].role
         /\ Len(h) > 0 => messages[h[Len(h)]].role # "user"

ReachedUserMessageStep(t) ==
  /\ turn[t].pc = "idle" /\ turn'[t].pc # "idle"
  /\ turn'[t].status \in {200, 500}

C31_UserMessageUnit ==
  [][\A t \in Turns :
       ReachedUserMessageStep(t) =>
         LET cid == turn'[t].conv
             mid == turn'[t].userMsgId
         IN \/ /\ mid = Len(messages') /\ mid > Len(messages)
               /\ messages'[mid].conversation_id = cid
               /\ messages'[mid].role = "user"
               /\ conversations'[cid].updated_at = messages'[mid].timestamp
               /\ cid <= Len(conversations) =>
                    conversations'[cid].updated_at > conversations[cid].updated_at
            \/ /\ mid = 0
               /\ \A c \in 1..Len(conversations') :
                    \/ /\ c <= Len(conversations)
                       /\ conversations'[c] = conversations[c]
                    \/ \E m \in 1..Len(messages') :
                         messages'[m].conversation_id = c]_vars

\* C32: a step changes a user's balance only if it is a finalize commit of a
\* turn of that user lowering it by exactly 1, a setup-flow exchange of that
\* user lowering it by exactly 1, or the commit of a paid top-up for that
\* user raising it by exactly CREDITS_PER_PURCHASE.
C32_BalanceFrame ==
  [][\A u \in Users :
       credits'[u] # credits[u] =>
         \/ /\ \E t \in Turns : /\ turn[t].pc = "finalize" /\ turn'[t].pc = "finalized"
                                /\ turn[t].user = u
            /\ credits'[u] = credits[u] - 1
         \/ /\ nsetup' # nsetup /\ resp'.op = "setup" /\ resp'.user = u
            /\ credits'[u] = credits[u] - 1
         \/ /\ hook.pc = "read" /\ hook'.pc = "idle" /\ hook.user = u
            /\ credits'[u] = credits[u] + CREDITS_PER_PURCHASE]_vars

\* C33: a webhook step never creates a user; it changes a balance only when
\* it commits a checkout.session.completed event with payment_status 'paid'
\* for an existing user, and then that user's balance rises by exactly
\* CREDITS_PER_PURCHASE and no other balance changes.
C33_WebhookGate ==
  [][/\ users' = users
     /\ credits' # credits =>
          /\ hook.pc = "read" /\ hook'.pc = "idle"
          /\ hook.event.type = "checkout.session.completed"
          /\ hook.event.payment_status = "paid"
          /\ hook.user \in users
          /\ credits' = [credits EXCEPT ![hook.user] = @ + CREDITS_PER_PURCHASE]
     /\ (hook.pc = "read" /\ hook'.pc = "idle") => credits' # credits]_vars

C33_Witness ==
  /\ hook.n = 2
  /\ Len(hook.granted) = 1
  /\ \E u \in users : credits[u] >= CREDITS_PER_PURCHASE
  /\ users # Users

\* C34: no step removes or alters a stored message (role, content,
\* conversation and timestamp stay as created, new messages are appended
\* after the existing ones), and no step makes a soft-deleted conversation
\* active again.
C34_AppendOnly ==
  [][/\ Len(messages') >= Len(messages)
     /\ \A m \in 1..Len(messages) : messages'[m] = messages[m]
     /\ Len(conversations') >= Len(conversations)
     /\ \A c \in 1..Len(conversations) :
          ~conversations[c].is_active => ~conversations'[c].is_active]_vars

C34_Witness ==
  /\ resp.op \in {"rename", "rewind", "setup"}
  /\ resp.conv \in 1..Len(conversations)
  /\ ~conversations[resp.conv].is_active
  /\ conversations[resp.conv].user_id = resp.user
  /\ \E m \in 1..Len(messages) :
       messages[m].conversation_id = resp.conv /\ messages[m].role = "user"

\* C35: a user row is created with 0 credits; no identity ever has more
\* than one playground conversation, and once no call for the identity is
\* between its commits it has exactly one, holding exactly the welcome
\* message; a call that finds the row returns it and changes nothing.
Playgrounds(u) ==
  {c \in 1..Len(conversations) : /\ conversations[c].user_id = u
                                 /\ conversations[c].title = <<"New Adventure">>}

Settled(u) ==
  \A p \in Calls : calls[p].user = u => calls[p].pc \notin {"conversation", "welcome"}

SetupCreated ==
  /\ nsetup' # nsetup /\ resp'.op = "setup"
  /\ resp'.conv > Len(conversations)

MessagesIn(msgs, cid) == {m \in 1..Len(msgs) : msgs[m].conversation_id = cid}

C36_SetupExchangeAtomic ==
  [][SetupCreated =>
       LET c == resp'.conv
           u == resp'.user
           M == MessagesIn(messages', c)
       IN /\ Len(conversations') = c
          /\ conversations'[c].user_id = u
          /\ \/ M = {} /\ credits' = credits
             \/ /\ \E m1, m2 \in M :
                     /\ M = {m1, m2} /\ m1 < m2
                     /\ messages'[m1].role = "user"
                     /\ messages'[m2].role = "assistant"
                /\ credits' = [credits EXCEPT ![u] = @ - 1]]_vars

C36_Witness ==
  /\ resp.op = "setup" /\ resp.status = 204
  /\ resp.conv = Len(conversations)
  /\ conversations[resp.conv].title = <<"goal">>
  /\ credits[resp.user] > 0
  /\ MessagesIn(messages, resp.conv) = {}
  /\ \A t \in Turns : turn[t].pc = "idle"

\* C37: a turn on a conversation for which the setup flow stored a system
\* instruction override runs under that override.
C37_OverrideApplied ==
  \A t \in Turns :
    ( /\ HasHistory(t)
      /\ resp.op = "setup" /\ resp.status = 204
      /\ resp.conv = turn[t].conv )
    => turn[t].instructions = resp.system_prompt_override

\* C38: a turn whose client disconnected mid-stream while the provider had
\* completed its generation without an error, and whose user still has
\* credit, is finalized with its reply stored; when the provider was cut off
\* before completing, the turn is discarded and no reply is stored.
C38_DisconnectStillFinalizes ==
  \A t \in Turns :
    turn[t].why = "disconnected" =>
      /\ Len(turn[t].out) < Len(call_google_ai_stream(turn[t].provider))
      /\ (ProviderHealthy(turn[t].provider) /\ credits[turn[t].user] > 0) =>
           /\ turn[t].pc = "finalized"
           /\ turn[t].aiMsgId \in 1..Len(messages)
      /\ turn[t].provider.fails =>
           /\ turn[t].pc = "discarded"
           /\ turn[t].aiMsgId = 0

====
